---- MODULE Spec2Model ----
(***************************************************************************)
(* Model of the ruleset store service (internal/ruleset/service.go) and    *)
(* its naming / timestamp utilities (internal/util/validation.go) over a   *)
(* Valkey hash store.  Strings that the code inspects character by         *)
(* character (names, keys, glob patterns) are sequences of one-character   *)
(* strings; opaque strings (description, markdown, one tag) are strings.   *)
(***************************************************************************)
EXTENDS Integers, Sequences, FiniteSets, TLC

\* ------------------------------------------------------------------ bounds
MaxOps == 2          \* service calls started in one behaviour, one at a time
MaxRaceOps == 3      \* service calls started in one behaviour of concurrent writers
MaxApartOps == 2     \* service calls started in one behaviour of callers on different names
MaxChurnOps == 3     \* service calls started in one behaviour of deleting and re-creating
MaxScanOps == 2      \* service calls started in one behaviour of readers beside a Delete
MaxNameLen == 4      \* longest string handed to the name validation
MaxToolOps == 2      \* search_rulesets requests handled in one behaviour
MaxTextLen == 4      \* longest text handed to the glob matching
MaxPatLen == 5       \* longest pattern handed to the glob matching
MaxSec == 2          \* the wall clock runs over the seconds 1..MaxSec
TicksPerSec == 2     \* sub-second instants per second (RFC3339 drops them)
ZeroTime == 0        \* Go's zero time.Time, earlier than every clock value

Procs == {"p1", "p2"}

\* ------------------------------------------------------------ input domains
ValidNameArgs == { <<"a">>, <<"a", "b">> }
InvalidNameArgs == { <<>>, <<"a", "_">>, <<"A", "b">> }
NameArgs == ValidNameArgs \cup InvalidNameArgs
RaceNames == { <<"a">> }     \* the name concurrent writers contend for
Patterns == { <<>>, <<"*">>, <<"a", "*">>, <<"?">>, <<"*", "b">>, <<"a", "?">>, <<"b", "*">> }
ScanPatterns == { <<"*">>, <<"a", "?">> }   \* the searches run on a damaged store
\* the pattern argument of a search_rulesets request: <<>> when the request
\* has none, <<s>> when it is the string s
ToolArgs == { <<>> } \cup { <<pat>> : pat \in Patterns }
\* the characters of the texts handed to the glob matching: a letter and
\* the underscore; its patterns also hold the two wildcards
TextChars == { "a", "_" }
PatChars == TextChars \cup { "*", "?" }
Strs == { "", "x" }
\* the characters of the strings handed to the name validation: a lowercase
\* letter, a digit, the underscore, an uppercase letter, a hyphen, a space
NameChars == { "a", "7", "_", "A", "-", " " }
TagLists == { <<>>, <<"t2", "t1">> }

\* ------------------------------------------------------------------ helpers
Range(s) == { s[i] : i \in 1..Len(s) }
Perms(S) == { s \in [1..Cardinality(S) -> S] : Range(s) = S }
\* the strings over alphabet A of length up to n
StringsUpTo(A, n) == UNION { [1..k -> A] : k \in 0..n }
Lower == { "a", "b", "c", "d", "e", "f", "g", "h", "i", "j", "k", "l", "m",
           "n", "o", "p", "q", "r", "s", "t", "u", "v", "w", "x", "y", "z" }
Digit == { "0", "1", "2", "3", "4", "5", "6", "7", "8", "9" }

\* --------------------------------------------- internal/util/validation.go
\* snakeCaseRegex ^[a-z][a-z0-9]*(_[a-z0-9]+)*$ as the automaton it denotes:
\* state "start" before the first character, "seg" inside a segment,
\* "us" right after an underscore, "dead" once the match is impossible.
\* variant: the first character may be a digit, ^[a-z0-9]+(_[a-z0-9]+)*$
RegexStepDigitFirst(q, c) ==
    CASE q = "start" -> IF c \in Lower \cup Digit THEN "seg" ELSE "dead"
      [] q = "seg"   -> IF c \in Lower \cup Digit THEN "seg"
                        ELSE IF c = "_" THEN "us" ELSE "dead"
      [] q = "us"    -> IF c \in Lower \cup Digit THEN "seg" ELSE "dead"
      [] OTHER       -> "dead"
RegexStep(q, c) ==
    CASE q = "start" -> IF c \in Lower THEN "seg" ELSE "dead"
      [] q = "seg"   -> IF c \in Lower \cup Digit THEN "seg"
                        ELSE IF c = "_" THEN "us" ELSE "dead"
      [] q = "us"    -> IF c \in Lower \cup Digit THEN "seg" ELSE "dead"
      [] OTHER       -> "dead"

RECURSIVE RegexRun(_, _, _)
RegexRun(q, s, i) == IF i > Len(s) THEN q ELSE RegexRun(RegexStep(q, s[i]), s, i + 1)

\* variant: the pattern without the + of the last group, ^[a-z][a-z0-9]*(_[a-z0-9]*)*$
snakeCaseRegexLoose(name) == RegexRun("start", name, 1) \in {"seg", "us"}

snakeCaseRegex(name) == RegexRun("start", name, 1) = "seg"

\* TRUE when ValidateRulesetName returns nil
ValidateRulesetName(name) == name # <<>> /\ snakeCaseRegex(name)

\* t.Format(time.RFC3339): the text carries whole seconds only
FormatTimestamp(t) == [valid |-> TRUE, sec |-> t \div TicksPerSec]

\* variant: a text that does not parse gives the zero time and no error
ParseTimestampZero(s) ==
    IF s.valid THEN [ok |-> TRUE, t |-> s.sec * TicksPerSec]
    ELSE [ok |-> TRUE, t |-> ZeroTime]
\* time.Parse(time.RFC3339, s)
ParseTimestamp(s) ==
    IF s.valid THEN [ok |-> TRUE, t |-> s.sec * TicksPerSec]
    ELSE [ok |-> FALSE, t |-> ZeroTime]

\* ------------------------------------------------------- encoding/json tags
\* A Go []string is [isNil, elems]; its JSON text is a sequence of tokens.
NilSlice == [isNil |-> TRUE, elems |-> <<>>]
Slice(elems) == [isNil |-> FALSE, elems |-> elems]

RECURSIVE JoinTags(_, _)
JoinTags(elems, i) ==
    IF i > Len(elems) THEN <<>>
    ELSE (IF i > 1 THEN <<",">> ELSE <<>>) \o <<elems[i]>> \o JoinTags(elems, i + 1)

\* variant: the elements written one after the other, with no separator
MarshalTagsNoComma(tags) ==
    IF tags.isNil THEN <<"null">>
    ELSE <<"[">> \o tags.elems \o <<"]">>

\* json.Marshal(tags)
MarshalTags(tags) ==
    IF tags.isNil THEN <<"null">>
    ELSE <<"[">> \o JoinTags(tags.elems, 1) \o <<"]">>

\* json.Unmarshal(text, &tags)
UnmarshalTags(text) ==
    IF text = <<"null">> THEN [ok |-> TRUE, tags |-> NilSlice]
    ELSE IF Len(text) >= 2 /\ text[1] = "[" /\ text[Len(text)] = "]"
            /\ (Len(text) = 2 \/ Len(text) % 2 = 1)
            /\ \A i \in 2..(Len(text) - 1) : (i % 2 = 1) <=> (text[i] = ",")
         THEN [ok |-> TRUE,
               tags |-> Slice([k \in 1..((Len(text) - 1) \div 2) |-> text[2 * k]])]
         ELSE [ok |-> FALSE, tags |-> NilSlice]

\* ------------------------------------------------------------- key schema
KeyPrefix == <<"r", "u", "l", "e", "s", "e", "t", ":">>
\* variant: the key does not depend on the name
KeyOfShared(name) == KeyPrefix \o <<"a">>
KeyOf(name) == KeyPrefix \o name                 \* fmt.Sprintf("ruleset:%s", name)
ForeignKey == <<"o", ":", "a">>                   \* a key of another application
Keys == { KeyOf(n) : n \in NameArgs } \cup { ForeignKey }

\* a Valkey hash is a map from field names to values; a key with no field
\* does not exist
NoHash == [f \in {} |-> ""]

\* variant: the write replaces the whole hash
HSetReplace(h, fields) == fields

HSet(h, fields) ==                                \* HSET key field value ...
    [f \in DOMAIN h \cup DOMAIN fields |->
        IF f \in DOMAIN fields THEN fields[f] ELSE h[f]]
\* variants: the existence check answers the same whatever is stored
ExistsCountNever(st, key) == 0
ExistsCountAlways(st, key) == 1

\* variant: the count of the missing keys
ExistsCountMissing(st, key) == IF DOMAIN st[key] # {} THEN 0 ELSE 1
ExistsCount(st, key) == IF DOMAIN st[key] # {} THEN 1 ELSE 0   \* EXISTS key
ScanKeys(st) == { k \in Keys : DOMAIN st[k] # {} }  \* the keys a full SCAN visits

\* ------------------------------------------------- internal/ruleset/types.go
ZeroRuleset == [Name |-> <<>>, Description |-> "", Tags |-> NilSlice,
                Markdown |-> "", CreatedAt |-> ZeroTime, LastModified |-> ZeroTime]
\* a pointer field of Update is <<>> (nil) or <<v>> (points to v)
NoUpdate == [Description |-> <<>>, Tags |-> <<>>, Markdown |-> <<>>]
Updates == [Description : {<<>>} \cup { <<d>> : d \in Strs },
            Tags : {<<>>, <<Slice(<<>>)>>},
            Markdown : {<<>>, <<"">>}]

\* ---------------------------------------------- service.go: matchesPattern
RECURSIVE SkipStars(_, _)
SkipStars(pattern, j) ==
    IF j < Len(pattern) /\ pattern[j + 1] = "*" THEN SkipStars(pattern, j + 1) ELSE j

\* variant: after a mismatch the text is not rewound to the character after
\* the one the last * was tried at
RECURSIVE MatchLoopNoRewind(_, _, _, _, _, _)
MatchLoopNoRewind(text, pattern, i, j, starIdx, matchIdx) ==
    IF i < Len(text)
    THEN IF j < Len(pattern) /\ (pattern[j + 1] = "?" \/ pattern[j + 1] = text[i + 1])
         THEN MatchLoopNoRewind(text, pattern, i + 1, j + 1, starIdx, matchIdx)
         ELSE IF j < Len(pattern) /\ pattern[j + 1] = "*"
         THEN MatchLoopNoRewind(text, pattern, i, j + 1, j, i)
         ELSE IF starIdx # -1
         THEN MatchLoopNoRewind(text, pattern, i + 1, starIdx + 1, starIdx, i + 1)
         ELSE FALSE
    ELSE SkipStars(pattern, j) = Len(pattern)

\* the loop of matchesPattern; i, j, starIdx, matchIdx are the code's 0-based indices
RECURSIVE MatchLoop(_, _, _, _, _, _)
MatchLoop(text, pattern, i, j, starIdx, matchIdx) ==
    IF i < Len(text)
    THEN IF j < Len(pattern) /\ (pattern[j + 1] = "?" \/ pattern[j + 1] = text[i + 1])
         THEN MatchLoop(text, pattern, i + 1, j + 1, starIdx, matchIdx)
         ELSE IF j < Len(pattern) /\ pattern[j + 1] = "*"
         THEN MatchLoop(text, pattern, i, j + 1, j, i)
         ELSE IF starIdx # -1
         THEN MatchLoop(text, pattern, matchIdx + 1, starIdx + 1, starIdx, matchIdx + 1)
         ELSE FALSE
    ELSE SkipStars(pattern, j) = Len(pattern)

\* variant: * is an ordinary character, matched against itself only
matchesPatternLiteral(text, pattern) ==
    /\ Len(text) = Len(pattern)
    /\ \A k \in 1..Len(text) : pattern[k] = "?" \/ pattern[k] = text[k]
\* variant: the pattern need only match a prefix of the text
matchesPatternPrefix(text, pattern) == MatchLoop(text, pattern \o <<"*">>, 0, 0, -1, 0)

matchesPattern(text, pattern) == MatchLoop(text, pattern, 0, 0, -1, 0)

\* --------------------------------------------------- service.go: pure parts
\* variant: the bare prefix passes the test
HasPrefixLoose(key) == Len(key) >= 8 /\ SubSeq(key, 1, 8) = KeyPrefix
HasPrefix(key) == Len(key) > 8 /\ SubSeq(key, 1, 8) = KeyPrefix
StripPrefix(key) == SubSeq(key, 9, Len(key))

RECURSIVE NamesOfKeys(_, _)
\* ListNames, lines 59-64: the names of the scanned keys, in scan order
NamesOfKeys(keys, i) ==
    IF i > Len(keys) THEN <<>>
    ELSE (IF HasPrefix(keys[i]) THEN <<StripPrefix(keys[i])>> ELSE <<>>)
         \o NamesOfKeys(keys, i + 1)

RECURSIVE MatchingNames(_, _, _)
\* Search, lines 238-246
MatchingNames(keys, keyPattern, i) ==
    IF i > Len(keys) THEN <<>>
    ELSE (IF HasPrefix(keys[i]) /\ matchesPattern(keys[i], keyPattern)
          THEN <<StripPrefix(keys[i])>> ELSE <<>>)
         \o MatchingNames(keys, keyPattern, i + 1)

\* Get, lines 131-191, on a store that answers HGETALL
GetOf(st, name) ==
    IF ~ValidateRulesetName(name) THEN [err |-> "InvalidName", rs |-> ZeroRuleset]
    ELSE LET result == st[KeyOf(name)]
             has(f) == f \in DOMAIN result
             tags == IF has("tags") THEN UnmarshalTags(result["tags"])
                     ELSE [ok |-> TRUE, tags |-> NilSlice]
             ca == IF has("created_at") THEN ParseTimestamp(result["created_at"])
                   ELSE [ok |-> TRUE, t |-> ZeroTime]
             lm == IF has("last_modified") THEN ParseTimestamp(result["last_modified"])
                   ELSE [ok |-> TRUE, t |-> ZeroTime]
         IN IF DOMAIN result = {} THEN [err |-> "NotFound", rs |-> ZeroRuleset]
            ELSE IF ~tags.ok \/ ~ca.ok \/ ~lm.ok
            THEN [err |-> "StoreError", rs |-> ZeroRuleset]
            ELSE [err |-> "",
                  rs |-> [Name |-> name,
                          Description |-> IF has("description") THEN result["description"] ELSE "",
                          Tags |-> tags.tags,
                          Markdown |-> IF has("markdown") THEN result["markdown"] ELSE "",
                          CreatedAt |-> ca.t,
                          LastModified |-> lm.t]]

\* Create, lines 114-120: the field map written for a ruleset object
CreateFields(rs) ==
    [f \in {"description", "tags", "markdown", "created_at", "last_modified"} |->
        CASE f = "description"   -> rs.Description
          [] f = "tags"          -> MarshalTags(rs.Tags)
          [] f = "markdown"      -> rs.Markdown
          [] f = "created_at"    -> FormatTimestamp(rs.CreatedAt)
          [] f = "last_modified" -> FormatTimestamp(rs.LastModified)]

\* variant: a field is staged only when it is present and not empty
UpdateStagedSkipEmpty(upd) ==
    (IF upd.Description # <<>> /\ upd.Description # <<"">> THEN {"description"} ELSE {})
    \cup (IF upd.Tags # <<>> /\ upd.Tags # <<Slice(<<>>)>> THEN {"tags"} ELSE {})
    \cup (IF upd.Markdown # <<>> /\ upd.Markdown # <<"">> THEN {"markdown"} ELSE {})
    \cup {"last_modified"}
\* Update, lines 290-310: the names of the staged fields
UpdateStaged(upd) ==
    (IF upd.Description # <<>> THEN {"description"} ELSE {})
    \cup (IF upd.Tags # <<>> THEN {"tags"} ELSE {})
    \cup (IF upd.Markdown # <<>> THEN {"markdown"} ELSE {})
    \cup {"last_modified"}
\* the descriptors for which the fields S are staged
UpdatesOver(S) ==
    { u \in Updates : \A f \in {"description", "tags", "markdown"} :
                         f \in UpdateStaged(u) <=> f \in S }
\* variant: last_modified is not staged
UpdateFieldsNoStamp(upd, now) ==
    [f \in UpdateStaged(upd) \ {"last_modified"} |->
        CASE f = "description"   -> upd.Description[1]
          [] f = "tags"          -> MarshalTags(upd.Tags[1])
          [] f = "markdown"      -> upd.Markdown[1]]
\* variant: created_at is staged with the time of the update
UpdateFieldsRestamp(upd, now) ==
    [f \in UpdateStaged(upd) \cup {"created_at"} |->
        CASE f = "description"   -> upd.Description[1]
          [] f = "tags"          -> MarshalTags(upd.Tags[1])
          [] f = "markdown"      -> upd.Markdown[1]
          [] f = "created_at"    -> FormatTimestamp(now)
          [] f = "last_modified" -> FormatTimestamp(now)]

UpdateFields(upd, now) ==
    [f \in UpdateStaged(upd) |->
        CASE f = "description"   -> upd.Description[1]
          [] f = "tags"          -> MarshalTags(upd.Tags[1])
          [] f = "markdown"      -> upd.Markdown[1]
          [] f = "last_modified" -> FormatTimestamp(now)]

\* ===================================================================== state
VARIABLES
    store,   \* the Valkey keyspace: key -> hash (field map)
    clock,   \* the latest instant time.Now() has returned, in sub-second ticks
    pc,      \* per caller: where its running service call stands
    loc,     \* per caller: the locals of its running service call
    last,    \* what the step just taken returned to its caller (NoResp: nothing);
             \* calls counts the store calls the call issued, failed tells whether
             \* one of them returned an error
    budget   \* number of service calls that may still start

vars == <<store, clock, pc, loc, last, budget>>

MaxClock == MaxSec * TicksPerSec

IdleLoc == [op |-> "none", name |-> <<>>, now |-> ZeroTime, calls |-> 0,
            todo |-> <<>>, acc |-> <<>>, staged |-> {}, pat |-> <<>>,
            failed |-> FALSE, req |-> <<>>]

NoResp == [proc |-> "none", op |-> "none", name |-> <<>>, pat |-> <<>>, err |-> "",
           calls |-> 0, rulesets |-> <<>>, names |-> <<>>, listed |-> FALSE,
           exists |-> FALSE, rs |-> ZeroRuleset, upd |-> NoUpdate, failed |-> FALSE,
           req |-> <<>>]

\* the ruleset an earlier run of the server stored under name n
StoredBefore(n) ==
    HSet(NoHash, CreateFields([Name |-> n, Description |-> "x",
                               Tags |-> Slice(<<"t2", "t1">>), Markdown |-> "x",
                               CreatedAt |-> TicksPerSec, LastModified |-> TicksPerSec]))

\* the store outlives the server: it starts with any set of the valid names
\* already stored, next to a key of another application
InitOver(names, calls) ==
    /\ \E S \in SUBSET names :
          store = [k \in Keys |->
                      IF k = ForeignKey THEN HSet(NoHash, [f \in {"v"} |-> "x"])
                      ELSE IF HasPrefix(k) /\ StripPrefix(k) \in S
                      THEN StoredBefore(StripPrefix(k))
                      ELSE NoHash]
    /\ clock = TicksPerSec
    /\ pc = [p \in Procs |-> "idle"]
    /\ loc = [p \in Procs |-> IdleLoc]
    /\ last = NoResp
    /\ budget = calls

Init == InitOver(ValidNameArgs, MaxOps)
InitRace == InitOver(RaceNames, MaxRaceOps)
InitApart == InitOver(ValidNameArgs, MaxApartOps)
\* the contended name is stored by an earlier Create
InitChurn ==
    /\ InitOver(RaceNames, MaxChurnOps)
    /\ \A n \in RaceNames : DOMAIN store[KeyOf(n)] # {}

\* a tags text cut short, and a timestamp text that is not RFC3339
CorruptTags == <<"[", "t1">>
CorruptTime == [valid |-> FALSE, sec |-> ZeroTime]

\* a hash under name n as the store may hold it: as Create wrote it, or with
\* one field overwritten from outside the service
DirtyHashes(n) ==
    { StoredBefore(n),
      [StoredBefore(n) EXCEPT !["tags"] = CorruptTags],
      [StoredBefore(n) EXCEPT !["created_at"] = CorruptTime],
      [StoredBefore(n) EXCEPT !["last_modified"] = CorruptTime] }

\* the store is shared: besides rulesets it may hold damaged entries, a key
\* with the prefix whose rest is not a valid name, the bare prefix as a key,
\* and a key of another application
InitScan ==
    /\ \E ha \in {NoHash} \cup DirtyHashes(<<"a">>),
          hb \in {NoHash, StoredBefore(<<"a", "b">>)},
          hu \in {NoHash, StoredBefore(<<"a", "_">>)},
          other \in BOOLEAN :
          store = [k \in Keys |->
                      CASE k = KeyOf(<<"a">>) -> ha
                        [] k = KeyOf(<<"a", "b">>) -> hb
                        [] k = KeyOf(<<"a", "_">>) -> hu
                        [] k \in {ForeignKey, KeyPrefix} ->
                              IF other THEN HSet(NoHash, [f \in {"v"} |-> "x"]) ELSE NoHash
                        [] OTHER -> NoHash]
    /\ clock = TicksPerSec
    /\ pc = [p \in Procs |-> "idle"]
    /\ loc = [p \in Procs |-> IdleLoc]
    /\ last = NoResp
    /\ budget = MaxScanOps

\* a caller starts a service call
Begin(p) == pc[p] = "idle" /\ budget > 0 /\ budget' = budget - 1

\* the call of p returns r
Return(p, r) ==
    /\ last' = r
    /\ pc' = [pc EXCEPT ![p] = "idle"]
    /\ loc' = [loc EXCEPT ![p] = IdleLoc]

\* the call of p goes on at label l with locals c
Goto(p, l, c) ==
    /\ pc' = [pc EXCEPT ![p] = l]
    /\ loc' = [loc EXCEPT ![p] = c]
    /\ last' = NoResp

Resp(p, op, name) == [NoResp EXCEPT !.proc = p, !.op = op, !.name = name]

\* time.Now(): the wall clock never runs backwards, so a read returns an
\* instant no earlier than the latest instant read before
Now(t) == t \in clock..MaxClock /\ clock' = t

\* the orders in which a full SCAN may visit the stored keys
ScanOrders(st) == Perms(ScanKeys(st))

\* ------------------------------- validation.go, lines 13-23, called alone
ValidateNameCall(p, s) ==
    /\ Begin(p)
    /\ Return(p, [Resp(p, "ValidateRulesetName", s) EXCEPT
                     !.err = IF ValidateRulesetName(s) THEN "" ELSE "InvalidName"])
    /\ UNCHANGED <<store, clock>>

\* ------------------------------------------------------ Exists, lines 26-41
ExistsOp(p, n) ==
    /\ Begin(p)
    /\
          IF ~ValidateRulesetName(n)
          THEN Return(p, [Resp(p, "Exists", n) EXCEPT !.err = "InvalidName"])
          ELSE \E ok \in BOOLEAN :
                  Return(p, IF ~ok
                            THEN [Resp(p, "Exists", n) EXCEPT !.err = "StoreError", !.calls = 1, !.failed = TRUE]
                            ELSE [Resp(p, "Exists", n) EXCEPT
                                     !.exists = (ExistsCount(store, KeyOf(n)) > 0),
                                     !.calls = 1])
    /\ UNCHANGED <<store, clock>>

\* --------------------------------------------------- ListNames, lines 44-73
ListNamesOp(p) ==
    /\ Begin(p)
    /\ \/ Return(p, [Resp(p, "ListNames", <<>>) EXCEPT !.err = "StoreError", !.calls = 1, !.failed = TRUE])
       \/ \E keys \in ScanOrders(store) :
             Return(p, [Resp(p, "ListNames", <<>>) EXCEPT
                           !.names = NamesOfKeys(keys, 1), !.listed = TRUE, !.calls = 1])
    /\ UNCHANGED <<store, clock>>

\* ------------------------------------------------------- Get, lines 131-191
GetOp(p, n) ==
    /\ Begin(p)
    /\
          LET g == GetOf(store, n) IN
          IF g.err = "InvalidName"
          THEN Return(p, [Resp(p, "Get", n) EXCEPT !.err = "InvalidName"])
          ELSE \E ok \in BOOLEAN :
                  Return(p, IF ~ok
                            THEN [Resp(p, "Get", n) EXCEPT !.err = "StoreError", !.calls = 1, !.failed = TRUE]
                            ELSE [Resp(p, "Get", n) EXCEPT !.err = g.err, !.calls = 1,
                                     !.rulesets = IF g.err = "" THEN <<g.rs>> ELSE <<>>])
    /\ UNCHANGED <<store, clock>>

\* ------------------------------------------- List, lines 194-199: ListNames
ListBegin(p) ==
    /\ Begin(p)
    /\ \/ Return(p, [Resp(p, "List", <<>>) EXCEPT !.err = "StoreError", !.calls = 1, !.failed = TRUE])
       \/ \E keys \in ScanOrders(store) :
             LET names == NamesOfKeys(keys, 1) IN
             IF names = <<>>
             THEN Return(p, [Resp(p, "List", <<>>) EXCEPT !.calls = 1])
             ELSE Goto(p, "fetch", [IdleLoc EXCEPT !.op = "List", !.todo = names, !.calls = 1])
    /\ UNCHANGED <<store, clock>>

\* ------------------------------------------ Search, lines 216-252: the scan
\* req is <<>> when the service is called directly and <<a>> when the tool
\* handler calls it for a request with pattern argument a
\* variant: the empty pattern is searched for as *
SearchFromStar(p, pat, req) ==
    /\ Begin(p)
    /\
          LET r == [Resp(p, "Search", <<>>) EXCEPT !.pat = pat, !.req = req]
              sought == IF pat = <<>> THEN <<"*">> ELSE pat
          IN
               \/ Return(p, [r EXCEPT !.err = "StoreError", !.calls = 1, !.failed = TRUE])
               \/ \E keys \in ScanOrders(store) :
                     LET names == MatchingNames(keys, KeyPrefix \o sought, 1) IN
                     IF names = <<>>
                     THEN Return(p, [r EXCEPT !.calls = 1])
                     ELSE Goto(p, "fetch", [IdleLoc EXCEPT !.op = "Search", !.pat = pat,
                                                              !.todo = names, !.calls = 1,
                                                              !.req = req])
    /\ UNCHANGED <<store, clock>>

SearchFrom(p, pat, req) ==
    /\ Begin(p)
    /\
          LET r == [Resp(p, "Search", <<>>) EXCEPT !.pat = pat, !.req = req] IN
          IF pat = <<>>
          THEN Return(p, [r EXCEPT !.err = "EmptyPattern"])
          ELSE \/ Return(p, [r EXCEPT !.err = "StoreError", !.calls = 1, !.failed = TRUE])
               \/ \E keys \in ScanOrders(store) :
                     LET names == MatchingNames(keys, KeyPrefix \o pat, 1) IN
                     IF names = <<>>
                     THEN Return(p, [r EXCEPT !.calls = 1])
                     ELSE Goto(p, "fetch", [IdleLoc EXCEPT !.op = "Search", !.pat = pat,
                                                              !.todo = names, !.calls = 1,
                                                              !.req = req])
    /\ UNCHANGED <<store, clock>>

\* Search called directly
SearchBegin(p, pat) == SearchFrom(p, pat, <<>>)

\* ------------------------ matchesPattern, lines 361-392, called alone
MatchCall(p, text, pattern) ==
    /\ Begin(p)
    /\ Return(p, [Resp(p, "matchesPattern", text) EXCEPT
                     !.pat = pattern, !.exists = matchesPattern(text, pattern)])
    /\ UNCHANGED <<store, clock>>

\* ------------- internal/mcp/handler.go, lines 731-771: search_rulesets
\* variant: a pattern argument is passed on as given, empty or not
SearchPatternAsGiven(args) == IF args # <<>> THEN args[1] ELSE <<"*">>

\* the pattern the handler searches for: the argument when the request has
\* one and it is not empty, * otherwise
SearchPattern(args) == IF args # <<>> /\ args[1] # <<>> THEN args[1] ELSE <<"*">>

\* the handler passes the pattern to Search; its result is an error result
\* when Search fails and the text of the found rulesets otherwise
HandleSearchRulesets(p, args) == SearchFrom(p, SearchPattern(args), <<args>>)

\* variant: a Get that fails ends the call with that error
FetchAbort(p) ==
    /\ pc[p] = "fetch"
    /\ \E ok \in BOOLEAN :
          LET c == loc[p]
              n == Head(c.todo)
              g == GetOf(store, n)
              got == g.err = "" /\ ok
              acc == IF got THEN Append(c.acc, g.rs) ELSE c.acc
              calls == IF g.err = "InvalidName" THEN c.calls ELSE c.calls + 1
              failed == c.failed \/ (g.err # "InvalidName" /\ ~ok)
          IN
          IF ~got
          THEN Return(p, [Resp(p, c.op, <<>>) EXCEPT !.pat = c.pat, !.req = c.req, !.calls = calls,
                             !.failed = failed,
                             !.err = IF g.err = "" THEN "StoreError" ELSE g.err])
          ELSE IF Tail(c.todo) = <<>>
          THEN Return(p, [Resp(p, c.op, <<>>) EXCEPT !.pat = c.pat, !.req = c.req, !.rulesets = acc,
                                                      !.calls = calls, !.failed = failed])
          ELSE Goto(p, "fetch", [c EXCEPT !.todo = Tail(c.todo), !.acc = acc,
                                          !.calls = calls, !.failed = failed])
    /\ UNCHANGED <<store, clock, budget>>

\* ----------- List, lines 203-212, and Search, lines 256-265: one s.Get(name)
Fetch(p) ==
    /\ pc[p] = "fetch"
    /\ \E ok \in BOOLEAN :
          LET c == loc[p]
              n == Head(c.todo)
              g == GetOf(store, n)
              got == g.err = "" /\ ok
              acc == IF got THEN Append(c.acc, g.rs) ELSE c.acc
              calls == IF g.err = "InvalidName" THEN c.calls ELSE c.calls + 1
              failed == c.failed \/ (g.err # "InvalidName" /\ ~ok)
          IN
          IF Tail(c.todo) = <<>>
          THEN Return(p, [Resp(p, c.op, <<>>) EXCEPT !.pat = c.pat, !.req = c.req, !.rulesets = acc,
                                                      !.calls = calls, !.failed = failed])
          ELSE Goto(p, "fetch", [c EXCEPT !.todo = Tail(c.todo), !.acc = acc,
                                          !.calls = calls, !.failed = failed])
    /\ UNCHANGED <<store, clock, budget>>

\* ------------------------------ Create, lines 76-95: validation and Exists
CreateBegin(p, n) ==
    /\ Begin(p)
    /\
          IF ~ValidateRulesetName(n)
          THEN Return(p, [Resp(p, "Create", n) EXCEPT !.err = "InvalidName"])
          ELSE \/ Return(p, [Resp(p, "Create", n) EXCEPT !.err = "StoreError", !.calls = 1, !.failed = TRUE])
               \/ IF ExistsCount(store, KeyOf(n)) > 0
                  THEN Goto(p, "create_dup",
                            [IdleLoc EXCEPT !.op = "Create", !.name = n, !.calls = 1])
                  ELSE Goto(p, "create_stage",
                            [IdleLoc EXCEPT !.op = "Create", !.name = n, !.calls = 1])
    /\ UNCHANGED <<store, clock>>

\* variant: a ListNames that fails ends the call with its error
CreateListNamesAbort(p) ==
    /\ pc[p] = "create_dup"
    /\ LET r == [Resp(p, "Create", loc[p].name) EXCEPT
                    !.err = "DuplicateName", !.calls = loc[p].calls + 1]
       IN \/ Return(p, [r EXCEPT !.failed = TRUE, !.err = "StoreError"])
          \/ \E keys \in ScanOrders(store) :
                Return(p, [r EXCEPT !.listed = TRUE, !.names = NamesOfKeys(keys, 1)])
    /\ UNCHANGED <<store, clock, budget>>

\* Create, lines 88-95: the name exists; ListNames for the error message
CreateListNames(p) ==
    /\ pc[p] = "create_dup"
    /\ LET r == [Resp(p, "Create", loc[p].name) EXCEPT
                    !.err = "DuplicateName", !.calls = loc[p].calls + 1]
       IN \/ Return(p, [r EXCEPT !.failed = TRUE])
          \/ \E keys \in ScanOrders(store) :
                Return(p, [r EXCEPT !.listed = TRUE, !.names = NamesOfKeys(keys, 1)])
    /\ UNCHANGED <<store, clock, budget>>

\* Create, lines 97-100: now := time.Now()
CreateStage(p) ==
    /\ pc[p] = "create_stage"
    /\ \E t \in clock..MaxClock :
          Now(t) /\ Goto(p, "create_hset", [loc[p] EXCEPT !.now = t])
    /\ UNCHANGED <<store, budget>>

\* variant: the caller's ruleset gets its timestamps only when the HSET
\* succeeded
CreateHSetStampAfter(p) ==
    /\ pc[p] = "create_hset"
    /\ \E d \in Strs, t \in TagLists, m \in Strs, ok \in BOOLEAN :
          LET rs == [Name |-> loc[p].name, Description |-> d, Tags |-> Slice(t),
                     Markdown |-> m, CreatedAt |-> loc[p].now,
                     LastModified |-> loc[p].now]
              key == KeyOf(loc[p].name)
          IN
          /\ store' = IF ok THEN [store EXCEPT ![key] = HSet(@, CreateFields(rs))]
                      ELSE store
          /\ Return(p, [Resp(p, "Create", loc[p].name) EXCEPT
                           !.err = IF ok THEN "" ELSE "StoreError", !.failed = ~ok,
                           !.calls = loc[p].calls + 1,
                           !.rs = IF ok THEN rs
                                  ELSE [rs EXCEPT !.CreatedAt = ZeroTime,
                                                  !.LastModified = ZeroTime]])
    /\ UNCHANGED <<clock, budget>>

\* Create, lines 102-127: the field map of the caller's ruleset and the HSET.
\* The response carries the caller's ruleset as the call leaves it: its
\* timestamps were assigned at lines 98-100, before the HSET.
CreateHSet(p) ==
    /\ pc[p] = "create_hset"
    /\ \E d \in Strs, t \in TagLists, m \in Strs, ok \in BOOLEAN :
          LET rs == [Name |-> loc[p].name, Description |-> d, Tags |-> Slice(t),
                     Markdown |-> m, CreatedAt |-> loc[p].now,
                     LastModified |-> loc[p].now]
              key == KeyOf(loc[p].name)
          IN
          /\ store' = IF ok THEN [store EXCEPT ![key] = HSet(@, CreateFields(rs))]
                      ELSE store
          /\ Return(p, [Resp(p, "Create", loc[p].name) EXCEPT
                           !.err = IF ok THEN "" ELSE "StoreError", !.failed = ~ok,
                           !.calls = loc[p].calls + 1, !.rs = rs])
    /\ UNCHANGED <<clock, budget>>

\* ---------------------------- Update, lines 269-283: validation and Exists
UpdateBegin(p, n) ==
    /\ Begin(p)
    /\
          IF ~ValidateRulesetName(n)
          THEN Return(p, [Resp(p, "Update", n) EXCEPT !.err = "InvalidName"])
          ELSE \/ Return(p, [Resp(p, "Update", n) EXCEPT !.err = "StoreError", !.calls = 1, !.failed = TRUE])
               \/ IF ~(ExistsCount(store, KeyOf(n)) > 0)
                  THEN Return(p, [Resp(p, "Update", n) EXCEPT !.err = "NotFound", !.calls = 1])
                  ELSE Goto(p, "update_stage",
                            [IdleLoc EXCEPT !.op = "Update", !.name = n, !.calls = 1])
    /\ UNCHANGED <<store, clock>>

\* Update, lines 285-315: stage the non-nil fields of the descriptor and
\* the time.Now() text; return at once when only last_modified is staged.
\* The descriptor is the caller's input: which fields it carries decides the
\* early return here, their values show only in the HSET.
UpdateStage(p) ==
    /\ pc[p] = "update_stage"
    /\ \E u \in Updates, t \in clock..MaxClock :
          /\ Now(t)
          /\ IF Cardinality(DOMAIN UpdateFields(u, t)) = 1
             THEN Return(p, [Resp(p, "Update", loc[p].name) EXCEPT
                                !.calls = loc[p].calls, !.upd = u])
             ELSE Goto(p, "update_hset",
                       [loc[p] EXCEPT !.staged = DOMAIN UpdateFields(u, t), !.now = t])
    /\ UNCHANGED <<store, budget>>

\* Update, lines 317-323: the HSET of the staged fields
UpdateHSet(p) ==
    /\ pc[p] = "update_hset"
    /\ \E u \in UpdatesOver(loc[p].staged), ok \in BOOLEAN :
          LET key == KeyOf(loc[p].name) IN
          /\ store' = IF ok
                      THEN [store EXCEPT ![key] = HSet(@, UpdateFields(u, loc[p].now))]
                      ELSE store
          /\ Return(p, [Resp(p, "Update", loc[p].name) EXCEPT
                           !.err = IF ok THEN "" ELSE "StoreError", !.failed = ~ok,
                           !.calls = loc[p].calls + 1, !.upd = u])
    /\ UNCHANGED <<clock, budget>>

\* ---------------------------- Delete, lines 327-337: validation and Exists
DeleteBegin(p, n) ==
    /\ Begin(p)
    /\
          IF ~ValidateRulesetName(n)
          THEN Return(p, [Resp(p, "Delete", n) EXCEPT !.err = "InvalidName"])
          ELSE \/ Return(p, [Resp(p, "Delete", n) EXCEPT !.err = "StoreError", !.calls = 1, !.failed = TRUE])
               \/ IF ~(ExistsCount(store, KeyOf(n)) > 0)
                  THEN Goto(p, "delete_nf",
                            [IdleLoc EXCEPT !.op = "Delete", !.name = n, !.calls = 1])
                  ELSE Goto(p, "delete_del",
                            [IdleLoc EXCEPT !.op = "Delete", !.name = n, !.calls = 1])
    /\ UNCHANGED <<store, clock>>

\* Delete, lines 339-346: the name is absent; ListNames for the error message
DeleteListNames(p) ==
    /\ pc[p] = "delete_nf"
    /\ LET r == [Resp(p, "Delete", loc[p].name) EXCEPT
                    !.err = "NotFound", !.calls = loc[p].calls + 1]
       IN \/ Return(p, [r EXCEPT !.failed = TRUE])
          \/ \E keys \in ScanOrders(store) :
                Return(p, [r EXCEPT !.listed = TRUE, !.names = NamesOfKeys(keys, 1)])
    /\ UNCHANGED <<store, clock, budget>>

\* variant: the removal takes the two timestamps only (HDEL)
DeleteDelTimestamps(p) ==
    /\ pc[p] = "delete_del"
    /\ \E ok \in BOOLEAN :
          /\ store' = IF ok
                      THEN [store EXCEPT ![KeyOf(loc[p].name)] =
                              [f \in DOMAIN @ \ {"created_at", "last_modified"} |-> @[f]]]
                      ELSE store
          /\ Return(p, [Resp(p, "Delete", loc[p].name) EXCEPT
                           !.err = IF ok THEN "" ELSE "StoreError", !.failed = ~ok,
                           !.calls = loc[p].calls + 1])
    /\ UNCHANGED <<clock, budget>>

\* Delete, lines 348-358: the DEL
DeleteDel(p) ==
    /\ pc[p] = "delete_del"
    /\ \E ok \in BOOLEAN :
          /\ store' = IF ok THEN [store EXCEPT ![KeyOf(loc[p].name)] = NoHash]
                      ELSE store
          /\ Return(p, [Resp(p, "Delete", loc[p].name) EXCEPT
                           !.err = IF ok THEN "" ELSE "StoreError", !.failed = ~ok,
                           !.calls = loc[p].calls + 1])
    /\ UNCHANGED <<clock, budget>>

\* ============================================================ specifications
\* one service call at a time: a caller steps only while the others are idle
Alone(p) == \A q \in Procs \ {p} : pc[q] = "idle"

\* the caller of the sequential specification: its calls follow one another
Callers == {"p1"}

Next ==
    \/ \E p \in Callers, n \in NameArgs : Alone(p) /\ ExistsOp(p, n)
    \/ \E p \in Callers : Alone(p) /\ ListNamesOp(p)
    \/ \E p \in Callers, n \in NameArgs : Alone(p) /\ GetOp(p, n)
    \/ \E p \in Callers : Alone(p) /\ ListBegin(p)
    \/ \E p \in Callers, pat \in Patterns : Alone(p) /\ SearchBegin(p, pat)
    \/ \E p \in Callers : Alone(p) /\ Fetch(p)
    \/ \E p \in Callers, n \in NameArgs : Alone(p) /\ CreateBegin(p, n)
    \/ \E p \in Callers : Alone(p) /\ CreateListNames(p)
    \/ \E p \in Callers : Alone(p) /\ CreateStage(p)
    \/ \E p \in Callers : Alone(p) /\ CreateHSet(p)
    \/ \E p \in Callers, n \in NameArgs : Alone(p) /\ UpdateBegin(p, n)
    \/ \E p \in Callers : Alone(p) /\ UpdateStage(p)
    \/ \E p \in Callers : Alone(p) /\ UpdateHSet(p)
    \/ \E p \in Callers, n \in NameArgs : Alone(p) /\ DeleteBegin(p, n)
    \/ \E p \in Callers : Alone(p) /\ DeleteListNames(p)
    \/ \E p \in Callers : Alone(p) /\ DeleteDel(p)

Spec == Init /\ [][Next]_vars

\* concurrent writers: the steps of Create, Update and Delete calls of
\* different callers on one name interleave in any order
NextRace ==
    \/ \E p \in Procs, n \in RaceNames : CreateBegin(p, n)
    \/ \E p \in Procs : CreateListNames(p)
    \/ \E p \in Procs : CreateStage(p)
    \/ \E p \in Procs : CreateHSet(p)
    \/ \E p \in Procs, n \in RaceNames : UpdateBegin(p, n)
    \/ \E p \in Procs : UpdateStage(p)
    \/ \E p \in Procs : UpdateHSet(p)
    \/ \E p \in Procs, n \in RaceNames : DeleteBegin(p, n)
    \/ \E p \in Procs : DeleteListNames(p)
    \/ \E p \in Procs : DeleteDel(p)

RaceSpec == InitRace /\ [][NextRace]_vars

\* callers on different names: each caller keeps to a name of its own, and
\* the steps of their calls interleave in any order
OwnName(p) == IF p = "p1" THEN <<"a">> ELSE <<"a", "b">>

NextApart ==
    \/ \E p \in Procs : ExistsOp(p, OwnName(p))
    \/ \E p \in Procs : GetOp(p, OwnName(p))
    \/ \E p \in Procs : CreateBegin(p, OwnName(p))
    \/ \E p \in Procs : CreateListNames(p)
    \/ \E p \in Procs : CreateStage(p)
    \/ \E p \in Procs : CreateHSet(p)
    \/ \E p \in Procs : UpdateBegin(p, OwnName(p))
    \/ \E p \in Procs : UpdateStage(p)
    \/ \E p \in Procs : UpdateHSet(p)
    \/ \E p \in Procs : DeleteBegin(p, OwnName(p))
    \/ \E p \in Procs : DeleteListNames(p)
    \/ \E p \in Procs : DeleteDel(p)

ApartSpec == InitApart /\ [][NextApart]_vars

\* deleting and re-creating: Create, Delete and Get calls on the contended
\* name, one call at a time
NextChurn ==
    \/ \E p \in Procs, n \in RaceNames : Alone(p) /\ GetOp(p, n)
    \/ \E p \in Procs, n \in RaceNames : Alone(p) /\ CreateBegin(p, n)
    \/ \E p \in Procs : Alone(p) /\ CreateListNames(p)
    \/ \E p \in Procs : Alone(p) /\ CreateStage(p)
    \/ \E p \in Procs : Alone(p) /\ CreateHSet(p)
    \/ \E p \in Procs, n \in RaceNames : Alone(p) /\ DeleteBegin(p, n)
    \/ \E p \in Procs : Alone(p) /\ DeleteListNames(p)
    \/ \E p \in Procs : Alone(p) /\ DeleteDel(p)

ChurnSpec == InitChurn /\ [][NextChurn]_vars

\* a reader beside a Delete, on a store that may hold damaged entries: one
\* caller reads, the other deletes, and their steps interleave in any order
Reader == "p1"
Deleter == "p2"

NextScan ==
    \/ \E n \in ValidNameArgs : ExistsOp(Reader, n)
    \/ ListNamesOp(Reader)
    \/ \E n \in ValidNameArgs : GetOp(Reader, n)
    \/ ListBegin(Reader)
    \/ \E pat \in ScanPatterns : SearchBegin(Reader, pat)
    \/ Fetch(Reader)
    \/ \E n \in ValidNameArgs : DeleteBegin(Deleter, n)
    \/ DeleteListNames(Deleter)
    \/ DeleteDel(Deleter)

ScanSpec == InitScan /\ [][NextScan]_vars

\* the name validation applied to every string over NameChars of bounded
\* length
InitNames == InitOver({}, 1)

NextNames == \E s \in StringsUpTo(NameChars, MaxNameLen) : ValidateNameCall("p1", s)

NamesSpec == InitNames /\ [][NextNames]_vars

\* the search_rulesets tool, one request after the other, with and without a
\* pattern argument
InitTool == InitOver(ValidNameArgs, MaxToolOps)

NextTool ==
    \/ \E args \in ToolArgs : Alone("p1") /\ HandleSearchRulesets("p1", args)
    \/ Alone("p1") /\ Fetch("p1")

ToolSpec == InitTool /\ [][NextTool]_vars

\* the glob matching applied to every text over TextChars and every pattern
\* over PatChars of bounded length
InitGlob == InitOver({}, 1)

\* arguments are drawn only while a call may start
NextGlob ==
    /\ budget > 0
    /\ \E text \in StringsUpTo(TextChars, MaxTextLen),
          pattern \in StringsUpTo(PatChars, MaxPatLen) :
          MatchCall("p1", text, pattern)

GlobSpec == InitGlob /\ [][NextGlob]_vars

\* ================================================================ properties
\* vocabulary of the properties

\* name n has an entry in the keyspace st
StoredIn(st, n) == DOMAIN st[KeyOf(n)] # {}
Stored(n) == StoredIn(store, n)

\* the snake_case grammar, stated on the characters of the name
SnakeCase(s) ==
    /\ Len(s) >= 1
    /\ s[1] \in Lower
    /\ s[Len(s)] # "_"
    /\ \A i \in 1..Len(s) : s[i] \in Lower \cup Digit \cup {"_"}
    /\ \A i \in 1..(Len(s) - 1) : ~(s[i] = "_" /\ s[i + 1] = "_")

\* anchored glob semantics: * is any run of characters, ? is one character
RECURSIVE Glob(_, _)
Glob(text, pat) ==
    IF pat = <<>> THEN text = <<>>
    ELSE IF Head(pat) = "*"
    THEN \E k \in 0..Len(text) : Glob(SubSeq(text, k + 1, Len(text)), Tail(pat))
    ELSE /\ text # <<>>
         /\ (Head(pat) = "?" \/ Head(pat) = Head(text))
         /\ Glob(Tail(text), Tail(pat))

\* this step: caller p calls operation op
Called(p, op) ==
    /\ pc[p] = "idle"
    /\ budget' < budget
    /\ \/ pc'[p] # "idle" /\ loc'[p].op = op
       \/ pc'[p] = "idle" /\ last'.proc = p /\ last'.op = op
\* the name of the call p makes in this step
CalledName(p) == IF pc'[p] # "idle" THEN loc'[p].name ELSE last'.name
\* this step: the running call op of p takes a step
Stepped(p, op) == pc[p] # "idle" /\ loc[p].op = op /\ <<pc[p], loc[p]>> # <<pc'[p], loc'[p]>>
\* this step: the call op of p returns
Returned(p, op) ==
    /\ last'.proc = p /\ last'.op = op
    /\ pc'[p] = "idle"
    /\ pc[p] # "idle" \/ budget' < budget
\* the name the call of p is about, in a step that p takes
NameOf(p) == IF pc[p] = "idle" THEN CalledName(p) ELSE loc[p].name

\* C1: a Create of a valid name that is stored never writes and returns
\* DuplicateName (StoreError when the existence check itself failed); the
\* whole store is the same after each of its steps as before.
DuplicateCreateRejected ==
    [][\A p \in Procs :
          (Called(p, "Create") \/ Stepped(p, "Create"))
          /\ SnakeCase(NameOf(p)) /\ Stored(NameOf(p))
          => /\ store' = store
             /\ pc'[p] \in {"idle", "create_dup"}
             /\ pc'[p] = "idle" =>
                   \/ last'.err = "DuplicateName"
                   \/ last'.err = "StoreError" /\ last'.failed /\ last'.calls = 1]_vars

\* a Create of a stored name has just been rejected
DuplicateCreateSeen ==
    last.op = "Create" /\ last.err = "DuplicateName" /\ Stored(last.name)

\* C2: a successful Update of a stored ruleset leaves exactly the fields of
\* its descriptor at the supplied values, every other field of description,
\* tags and markdown and created_at at the value before, and last_modified no
\* smaller than before; no other key changes.
PartialUpdateFrame ==
    [][\A p \in Procs :
          Returned(p, "Update") /\ last'.err = ""
          => LET n == last'.name
                 u == last'.upd
                 old == GetOf(store, n)
                 new == GetOf(store', n)
             IN /\ old.err = "" /\ new.err = ""
                /\ new.rs.Description =
                      IF u.Description # <<>> THEN u.Description[1] ELSE old.rs.Description
                /\ new.rs.Tags = IF u.Tags # <<>> THEN u.Tags[1] ELSE old.rs.Tags
                /\ new.rs.Markdown =
                      IF u.Markdown # <<>> THEN u.Markdown[1] ELSE old.rs.Markdown
                /\ new.rs.CreatedAt = old.rs.CreatedAt
                /\ new.rs.LastModified >= old.rs.LastModified
                /\ DOMAIN store'[KeyOf(n)] = DOMAIN store[KeyOf(n)]
                /\ \A k \in Keys \ {KeyOf(n)} : store'[k] = store[k]]_vars

\* an Update of the description alone has emptied it and left the rest
PartialUpdateSeen ==
    /\ last.op = "Update" /\ last.err = ""
    /\ last.upd = [Description |-> <<"">>, Tags |-> <<>>, Markdown |-> <<>>]
    /\ GetOf(store, last.name).rs.Description = ""
    /\ GetOf(store, last.name).rs.Markdown = "x"
    /\ GetOf(store, last.name).rs.Tags.elems = <<"t2", "t1">>

\* the instant the Update of p read from the clock, in the step it returns
UpdateTime(p) == IF pc[p] = "update_stage" THEN clock' ELSE loc[p].now

CreateGetRoundTrip ==
    [][\A p \in Procs :
          Returned(p, "Create") /\ last'.err = ""
          => LET g == GetOf(store', last'.name)
                 r == last'.rs
             IN /\ g.err = ""
                /\ g.rs.Name = r.Name
                /\ g.rs.Description = r.Description
                /\ g.rs.Tags.elems = r.Tags.elems
                /\ g.rs.Markdown = r.Markdown
                /\ g.rs.CreatedAt = g.rs.LastModified]_vars

\* a Create with two tags has succeeded
CreateSeen ==
    /\ last.op = "Create" /\ last.err = ""
    /\ last.rs.Tags.elems = <<"t2", "t1">> /\ last.rs.Description = ""
    /\ Stored(last.name)

\* C5: every stored ruleset has created_at <= last_modified.
CreatedNotAfterModified ==
    \A n \in ValidNameArgs :
       LET h == store[KeyOf(n)] IN
       ("created_at" \in DOMAIN h /\ "last_modified" \in DOMAIN h)
       => h["created_at"].sec <= h["last_modified"].sec

\* the created_at field of a hash, as a sequence of zero or one value
CreatedAtOf(h) == IF "created_at" \in DOMAIN h THEN <<h["created_at"]>> ELSE <<>>

\* C6: no step of an Update call changes the created_at field of any key.
UpdateNeverWritesCreatedAt ==
    [][\A p \in Procs :
          Called(p, "Update") \/ Stepped(p, "Update")
          => \A k \in Keys : CreatedAtOf(store'[k]) = CreatedAtOf(store[k])]_vars

\* an Update has written to a ruleset that has a created_at
UpdateWriteSeen ==
    /\ last.op = "Update" /\ last.err = "" /\ last.calls = 2
    /\ "created_at" \in DOMAIN store[KeyOf(last.name)]
    /\ store[KeyOf(last.name)]["created_at"].sec
          < store[KeyOf(last.name)]["last_modified"].sec

\* C7: a name becomes stored only by the write of a Create and stops being
\* stored only by the removal of a Delete.
PresenceOnlyByCreateAndDelete ==
    [][\A n \in ValidNameArgs :
          /\ ~StoredIn(store, n) /\ StoredIn(store', n)
             => \E p \in Procs : pc[p] = "create_hset" /\ loc[p].name = n /\ pc'[p] = "idle"
          /\ StoredIn(store, n) /\ ~StoredIn(store', n)
             => \E p \in Procs : pc[p] = "delete_del" /\ loc[p].name = n /\ pc'[p] = "idle"]_vars

\* C8: a Get, Update or Delete of a valid name that is not stored changes
\* nothing in the store and returns NotFound (StoreError when the store call
\* itself failed).
AbsentNameNotFound ==
    [][\A p \in Procs :
          (Called(p, "Get") \/ Called(p, "Update") \/ Called(p, "Delete")
             \/ Stepped(p, "Update") \/ Stepped(p, "Delete"))
          /\ SnakeCase(NameOf(p)) /\ ~Stored(NameOf(p))
          => /\ store' = store
             /\ pc'[p] \in {"idle", "delete_nf"}
             /\ pc'[p] = "idle" =>
                   \/ last'.err = "NotFound"
                   \/ last'.err = "StoreError" /\ last'.failed /\ last'.calls = 1]_vars

\* an Update of a name that is not stored has returned NotFound
AbsentUpdateSeen ==
    last.op = "Update" /\ last.err = "NotFound" /\ ~Stored(last.name)

\* C9: Exists, Create, Get, Update and Delete of a name outside the
\* snake_case grammar return InvalidName in the calling step, having issued
\* no store call and changed nothing.
InvalidNameRejected ==
    [][\A p \in Procs, op \in {"Exists", "Create", "Get", "Update", "Delete"} :
          Called(p, op) /\ ~SnakeCase(CalledName(p))
          => /\ pc'[p] = "idle"
             /\ last'.err = "InvalidName"
             /\ last'.calls = 0
             /\ store' = store]_vars

\* a call with a trailing underscore in the name has been rejected
InvalidNameSeen ==
    last.op = "Update" /\ last.err = "InvalidName" /\ last.name = <<"a", "_">>

\* C10: a Search with a non-empty pattern whose store calls all succeed
\* returns, without error and each once, exactly the stored rulesets whose
\* name matches the pattern as an anchored glob.
SearchReturnsGlobMatches ==
    [][\A p \in Procs :
          Returned(p, "Search") /\ last'.pat # <<>> /\ ~last'.failed
          => LET rs == last'.rulesets IN
             /\ last'.err = ""
             /\ { rs[i].Name : i \in 1..Len(rs) }
                   = { n \in ValidNameArgs : Stored(n) /\ Glob(n, last'.pat) }
             /\ \A i, j \in 1..Len(rs) : rs[i].Name = rs[j].Name => i = j
             /\ \A i \in 1..Len(rs) : rs[i] = GetOf(store, rs[i].Name).rs]_vars

\* a Search has returned one of two stored rulesets
SearchSeen ==
    /\ last.op = "Search" /\ last.err = "" /\ ~last.failed
    /\ last.pat = <<"*", "b">>
    /\ Len(last.rulesets) = 1
    /\ Stored(<<"a">>) /\ Stored(<<"a", "b">>)

\* the rulesets of the stored names, as Get decodes them
StoredRulesets == { GetOf(store, n).rs : n \in { m \in ValidNameArgs : Stored(m) } }

\* C11: with no write running, a List and a Search for * whose store calls
\* all succeed return without error the same set of rulesets: each returns
\* the ruleset of every stored name and nothing else.
SearchStarEqualsList ==
    [][\A p \in Procs :
          (Returned(p, "List") \/ (Returned(p, "Search") /\ last'.pat = <<"*">>))
          /\ ~last'.failed
          => /\ last'.err = ""
             /\ Range(last'.rulesets) = StoredRulesets
             /\ Len(last'.rulesets) = Cardinality(StoredRulesets)]_vars

\* a Search for * has returned both stored rulesets, next to a foreign key
SearchStarSeen ==
    /\ last.op = "Search" /\ last.pat = <<"*">> /\ ~last.failed
    /\ Len(last.rulesets) = 2
    /\ DOMAIN store[ForeignKey] # {}

\* what operation op returns when it runs alone on a name whose hash is h
AloneErr(op, h) ==
    CASE op = "Create" -> IF DOMAIN h # {} THEN "DuplicateName" ELSE ""
      [] op \in {"Get", "Update", "Delete"} -> IF DOMAIN h # {} THEN "" ELSE "NotFound"
      [] OTHER -> ""

\* the hash operation op leaves when it runs alone on a name whose hash is
\* h, for the inputs and the clock reading of the call that returned r
AloneHash(op, h, r, now) ==
    CASE op = "Create" -> IF DOMAIN h # {} THEN h ELSE CreateFields(r.rs)
      [] op = "Update" -> IF DOMAIN h = {} \/ r.upd = NoUpdate THEN h
                          ELSE HSet(h, UpdateFields(r.upd, now))
      [] op = "Delete" -> NoHash
      [] OTHER -> h

\* C12: calls on different names do not interfere.  Every step of a call on
\* name n leaves the hash of every other key as it was, and a call whose
\* store calls succeed returns the outcome, and leaves for n the hash, that
\* the same call gives when it runs alone on the hash n has at that moment;
\* so the steps of a call on another name, wherever they fall, change neither.
DifferentNamesApart ==
    [][\A p \in Procs :
          pc'[p] # pc[p] \/ (last'.proc = p /\ budget' < budget)
          => LET n == NameOf(p)
                 h == store[KeyOf(n)]
             IN /\ \A k \in Keys \ {KeyOf(n)} : store'[k] = store[k]
                /\ pc'[p] # "idle" => store' = store
                /\ (pc'[p] = "idle" /\ ~last'.failed)
                   => LET r == last' IN
                      /\ r.err = AloneErr(r.op, h)
                      /\ store'[KeyOf(n)] = AloneHash(r.op, h, r, loc[p].now)
                      /\ r.op = "Exists" => r.exists = (DOMAIN h # {})
                      /\ (r.op = "Get" /\ r.err = "") => r.rulesets = <<GetOf(store, n).rs>>]_vars

\* a Create of one name has landed while a Delete of the other name stood
\* between its existence check and its removal
ApartSeen ==
    /\ last.proc = "p2" /\ last.op = "Create" /\ last.err = ""
    /\ pc["p1"] = "delete_del"
    /\ Stored(<<"a">>) /\ Stored(<<"a", "b">>)

\* field f of hash h, as a sequence of zero or one value
FieldOf(h, f) == IF f \in DOMAIN h THEN <<h[f]>> ELSE <<>>

\* C13: when the write of an Update lands, also between the steps of another
\* Update of the same name, each of description, tags and markdown that the
\* Update carries holds the value it supplied, each field it does not carry
\* (so each field only the other Update set) is as it was, and last_modified
\* is the value this Update staged: the write that lands last decides it.
DisjointUpdatesBothWin ==
    [][\A p \in Procs :
          pc[p] = "update_hset" /\ pc'[p] = "idle" /\ last'.err = ""
          => LET u == last'.upd
                 h == store[KeyOf(loc[p].name)]
                 g == store'[KeyOf(loc[p].name)]
             IN /\ FieldOf(g, "description") =
                      IF u.Description # <<>> THEN u.Description ELSE FieldOf(h, "description")
                /\ IF u.Tags # <<>>
                   THEN "tags" \in DOMAIN g /\ UnmarshalTags(g["tags"]).tags = u.Tags[1]
                   ELSE FieldOf(g, "tags") = FieldOf(h, "tags")
                /\ FieldOf(g, "markdown") =
                      IF u.Markdown # <<>> THEN u.Markdown ELSE FieldOf(h, "markdown")
                /\ FieldOf(g, "last_modified") =
                      <<[valid |-> TRUE, sec |-> loc[p].now \div TicksPerSec]>>]_vars

\* an Update of the markdown alone has landed while an Update of the
\* description alone, which read the clock a second earlier, stands before
\* its own write
DisjointUpdatesSeen ==
    /\ last.proc = "p2" /\ last.op = "Update" /\ last.err = ""
    /\ last.upd = [Description |-> <<>>, Tags |-> <<>>, Markdown |-> <<"">>]
    /\ pc["p1"] = "update_hset"
    /\ loc["p1"].staged = {"description", "last_modified"}
    /\ store[KeyOf(<<"a">>)]["markdown"] = ""
    /\ loc["p1"].now \div TicksPerSec < store[KeyOf(<<"a">>)]["last_modified"].sec

\* C14: a successful Update sets a field that is present with the empty
\* value (empty string, empty list) to that empty value, and leaves a field
\* that is absent from the descriptor at its stored value.
EmptyIsNotAbsent ==
    [][\A p \in Procs :
          Returned(p, "Update") /\ last'.err = ""
          => LET u == last'.upd
                 h == store[KeyOf(last'.name)]
                 g == store'[KeyOf(last'.name)]
             IN /\ u.Description = <<"">> => FieldOf(g, "description") = <<"">>
                /\ u.Tags = <<Slice(<<>>)>> => FieldOf(g, "tags") = << <<"[", "]">> >>
                /\ u.Markdown = <<"">> => FieldOf(g, "markdown") = <<"">>
                /\ u.Description = <<>> => FieldOf(g, "description") = FieldOf(h, "description")
                /\ u.Tags = <<>> => FieldOf(g, "tags") = FieldOf(h, "tags")
                /\ u.Markdown = <<>> => FieldOf(g, "markdown") = FieldOf(h, "markdown")]_vars

\* an Update with an empty tag list and an empty markdown, and no
\* description, has emptied the two and kept the stored description
EmptyFieldSeen ==
    /\ last.op = "Update" /\ last.err = ""
    /\ last.upd = [Description |-> <<>>, Tags |-> <<Slice(<<>>)>>, Markdown |-> <<"">>]
    /\ store[KeyOf(last.name)]["tags"] = <<"[", "]">>
    /\ store[KeyOf(last.name)]["markdown"] = ""
    /\ store[KeyOf(last.name)]["description"] = "x"

\* the second of the stored created_at of name n, as a sequence of zero or
\* one value
CreatedSec(n) ==
    LET h == store[KeyOf(n)] IN
    IF "created_at" \in DOMAIN h THEN <<h["created_at"].sec>> ELSE <<>>

\* C15: a successful Delete leaves nothing stored under the name; a Create
\* of a name that is not stored, whose store calls succeed, succeeds and
\* leaves exactly its own five fields, which Get decodes to the new
\* description, tags and markdown; a successful Get returns what is stored;
\* and whenever the name is stored again after having been stored with
\* created_at c, its created_at is c or later.
RecreateAfterDelete ==
    /\ [][\A p \in Procs :
            /\ (Returned(p, "Delete") /\ last'.err = "") => ~StoredIn(store', last'.name)
            /\ (Returned(p, "Create") /\ ~last'.failed /\ ~Stored(last'.name))
               => LET g == GetOf(store', last'.name)
                      r == last'.rs
                  IN /\ last'.err = "" /\ g.err = ""
                     /\ g.rs.Description = r.Description
                     /\ g.rs.Tags = r.Tags
                     /\ g.rs.Markdown = r.Markdown
                     /\ DOMAIN store'[KeyOf(last'.name)] =
                           {"description", "tags", "markdown", "created_at", "last_modified"}
            /\ (Returned(p, "Get") /\ last'.err = "")
               => last'.rulesets = <<GetOf(store, last'.name).rs>>]_vars
    /\ \A n \in RaceNames, c \in 0..MaxSec :
          [](CreatedSec(n) = <<c>> => [](CreatedSec(n) # <<>> => CreatedSec(n)[1] >= c))

\* the name, stored by an earlier Create with other content, has been deleted
\* and created again a second later, and a Get has returned the new content
RecreateSeen ==
    /\ last.op = "Get" /\ last.err = "" /\ last.name = <<"a">>
    /\ Len(last.rulesets) = 1
    /\ last.rulesets[1].Description = "" /\ last.rulesets[1].Markdown = ""
    /\ last.rulesets[1].Tags = Slice(<<>>)
    /\ last.rulesets[1].CreatedAt = 2 * TicksPerSec

\* the text is null or a list of elements separated by commas, in brackets
IsTagList(text) ==
    \/ text = <<"null">>
    \/ text = <<"[", "]">>
    \/ /\ Len(text) >= 3 /\ Len(text) % 2 = 1
       /\ Head(text) = "[" /\ text[Len(text)] = "]"
       /\ \A i \in 1..((Len(text) - 3) \div 2) : text[2 * i + 1] = ","
       /\ \A i \in 1..((Len(text) - 1) \div 2) : text[2 * i] # ","

\* every field of the hash that Get decodes is in its encoding
Decodable(h) ==
    /\ "tags" \in DOMAIN h => IsTagList(h["tags"])
    /\ "created_at" \in DOMAIN h => h["created_at"].valid
    /\ "last_modified" \in DOMAIN h => h["last_modified"].valid

\* the names with at least one character whose key is stored
KeyedNames == { n \in NameArgs : n # <<>> /\ Stored(n) }

\* C16: List fetches the names its scan returned, one Get each.  A Get that
\* fails (the key's name is not valid, the entry is gone by now, its tags or
\* a timestamp do not decode, the store call fails) adds nothing and the
\* call goes on; a Get that succeeds adds its ruleset; the call then returns
\* the collected rulesets without error.  Search fetches in the same way.
ListSkipsFailedGets ==
    [][\A p \in Procs :
          /\ (Called(p, "List") /\ pc'[p] = "fetch") => Range(loc'[p].todo) = KeyedNames
          /\ (pc[p] = "fetch" /\ <<pc[p], loc[p]>> # <<pc'[p], loc'[p]>>)
             => LET n == Head(loc[p].todo)
                    h == store[KeyOf(n)]
                    good == SnakeCase(n) /\ DOMAIN h # {} /\ Decodable(h)
                    done == pc'[p] = "idle"
                    acc == IF done THEN last'.rulesets ELSE loc'[p].acc
                    failed == IF done THEN last'.failed ELSE loc'[p].failed
                IN /\ store' = store
                   /\ ~good => acc = loc[p].acc
                   /\ (good /\ ~failed) => acc = Append(loc[p].acc, GetOf(store, n).rs)
                   /\ acc \in {loc[p].acc, Append(loc[p].acc, GetOf(store, n).rs)}
                   /\ done <=> Tail(loc[p].todo) = <<>>
                   /\ done => last'.err = "" /\ last'.op = loc[p].op
                   /\ ~done => /\ pc'[p] = "fetch" /\ loc'[p].todo = Tail(loc[p].todo)
                               /\ loc'[p].op = loc[p].op]_vars

\* a List has returned one ruleset of three listed names, having skipped an
\* entry with damaged tags and a key whose name is not valid
ListSkipSeen ==
    /\ last.op = "List" /\ last.err = "" /\ ~last.failed
    /\ Len(last.rulesets) = 1 /\ last.rulesets[1].Name = <<"a", "b">>
    /\ Stored(<<"a">>) /\ store[KeyOf(<<"a">>)]["tags"] = CorruptTags
    /\ Stored(<<"a", "_">>)

ListingFailureKeepsErrorKind ==
    [][\A p \in Procs :
          (pc[p] \in {"create_dup", "delete_nf"} /\ pc'[p] # pc[p])
          => /\ pc'[p] = "idle"
             /\ last'.err = IF pc[p] = "create_dup" THEN "DuplicateName" ELSE "NotFound"
             /\ last'.name = loc[p].name
             /\ last'.listed <=> ~last'.failed
             /\ last'.listed => /\ Range(last'.names) = KeyedNames
                                /\ Len(last'.names) = Cardinality(KeyedNames)
             /\ ~last'.listed => last'.names = <<>>
             /\ store' = store]_vars

\* a Create of a stored name has returned DuplicateName with no list, its
\* ListNames having failed
ListingFailureSeen ==
    /\ last.op = "Create" /\ last.err = "DuplicateName"
    /\ last.failed /\ ~last.listed /\ last.calls = 2
    /\ Stored(last.name)

\* C19: a Get of a valid name whose HGETALL succeeds returns NotFound
\* exactly when the key has no field.  When the key has fields and the
\* stored tags are not a list encoding, or a stored created_at or
\* last_modified is not a timestamp encoding, it returns StoreError and no
\* ruleset; otherwise it returns the decoded ruleset.
GetDecodeFailureIsError ==
    [][\A p \in Procs :
          Returned(p, "Get") /\ SnakeCase(last'.name) /\ ~last'.failed
          => LET h == store[KeyOf(last'.name)] IN
             /\ last'.err = "NotFound" <=> DOMAIN h = {}
             /\ (DOMAIN h # {} /\ ~Decodable(h))
                => last'.err = "StoreError" /\ last'.rulesets = <<>>
             /\ (DOMAIN h # {} /\ Decodable(h))
                => /\ last'.err = "" /\ Len(last'.rulesets) = 1
                   /\ last'.rulesets[1].Name = last'.name
                   /\ last'.rulesets[1].Description = h["description"]
                   /\ last'.rulesets[1].CreatedAt = h["created_at"].sec * TicksPerSec]_vars

\* a Get of an entry whose created_at does not parse has returned StoreError
GetDecodeFailureSeen ==
    /\ last.op = "Get" /\ last.err = "StoreError" /\ ~last.failed
    /\ last.rulesets = <<>>
    /\ store[KeyOf(last.name)]["created_at"] = CorruptTime

\* C20: no step of an Exists, Get, ListNames, List or Search call changes
\* the hash of any key, whether the call goes on to succeed or to fail; and
\* an Exists that returns without error returns true exactly when the name
\* has an entry in the store at that step.
ReadsChangeNothing ==
    [][\A p \in Procs, op \in {"Exists", "Get", "ListNames", "List", "Search"} :
          (Called(p, op) \/ Stepped(p, op))
          => /\ \A k \in Keys : store'[k] = store[k]
             /\ (op = "Exists" /\ last'.err = "")
                => last'.exists = (DOMAIN store[KeyOf(last'.name)] # {})]_vars

\* an Exists has returned true for an entry whose tags do not decode, and a
\* Delete of that entry stands before its removal
ExistsSeen ==
    /\ last.op = "Exists" /\ last.err = "" /\ last.exists
    /\ store[KeyOf(last.name)]["tags"] = CorruptTags
    /\ pc[Deleter] = "delete_del" /\ loc[Deleter].name = last.name

\* C21: a Search called with the empty string returns in the calling step
\* the EmptyPattern error and no ruleset, having issued no store call (no
\* scan, no read) and changed nothing.
EmptyPatternRejected ==
    [][\A p \in Procs :
          (Called(p, "Search") /\ (IF pc'[p] = "idle" THEN last'.pat ELSE loc'[p].pat) = <<>>)
          => /\ pc'[p] = "idle"
             /\ last'.err = "EmptyPattern"
             /\ last'.rulesets = <<>>
             /\ last'.calls = 0 /\ ~last'.failed
             /\ store' = store]_vars

\* a Search with the empty pattern has been rejected on a store that holds
\* rulesets
EmptyPatternSeen ==
    /\ last.op = "Search" /\ last.pat = <<>> /\ last.err = "EmptyPattern"
    /\ last.calls = 0
    /\ Stored(<<"a">>) /\ Stored(<<"a", "b">>)

\* the segments of lowercase letters and digits that underscores separate
\* in s are all non-empty, and the first character is a lowercase letter
SegmentsOk(s) ==
    /\ s # <<>>
    /\ Head(s) \in Lower
    /\ \A i \in 1..Len(s) : s[i] \in Lower \cup Digit \cup {"_"}
    /\ \A i \in 1..Len(s) :
          s[i] = "_" => /\ i > 1 /\ i < Len(s)
                        /\ s[i - 1] # "_" /\ s[i + 1] # "_"

\* C22: the name validation succeeds exactly for the strings of one or more
\* underscore-separated non-empty segments of lowercase letters and digits
\* that start with a lowercase letter; it fails for the empty string and
\* for every string with an uppercase letter, a hyphen, a space, a leading
\* digit, or a leading, trailing or doubled underscore.
ValidateNameMatchesGrammar ==
    [][(last'.op = "ValidateRulesetName" /\ budget' < budget)
       => LET s == last'.name IN
          /\ last'.err \in {"", "InvalidName"}
          /\ last'.err = "" <=> SegmentsOk(s)
          /\ (s = <<>> \/ \E i \in 1..Len(s) : s[i] \in {"A", "-", " "})
             => last'.err = "InvalidName"
          /\ (s # <<>> /\ (Head(s) \in Digit \/ Head(s) = "_" \/ s[Len(s)] = "_"))
             => last'.err = "InvalidName"
          /\ (\E i \in 1..(Len(s) - 1) : s[i] = "_" /\ s[i + 1] = "_")
             => last'.err = "InvalidName"
          /\ store' = store]_vars

\* a name of two segments, the second one a digit, has been accepted
ValidNameSeen ==
    /\ last.op = "ValidateRulesetName" /\ last.err = ""
    /\ last.name = <<"a", "_", "7">>

\* the pattern argument of the request that the running or returning call
\* of p serves
ReqOf(p) == IF pc'[p] = "idle" THEN last'.req ELSE loc'[p].req
\* the pattern the call of p passes to Search in this step
PassedPattern(p) == IF pc'[p] = "idle" THEN last'.pat ELSE loc'[p].pat

MatchesPatternIsAnchoredGlob ==
    [][(last'.op = "matchesPattern" /\ budget' < budget)
       => /\ last'.exists <=> Glob(last'.name, last'.pat)
          /\ store' = store]_vars

\* a pattern with two * has matched a text where the first place the middle
\* of the pattern starts to match fails and a later one succeeds
GlobBacktrackSeen ==
    /\ last.op = "matchesPattern" /\ last.exists
    /\ last.pat = <<"*", "_", "a", "_", "*">>
    /\ last.name = <<"_", "_", "a", "_">>

\* the five fields Create writes
AllFields == {"description", "tags", "markdown", "created_at", "last_modified"}

\* C25: in every reachable state, those reached by interleaving an Update
\* with a Delete of the same name included, every stored entry of a ruleset
\* holds all five fields description, tags, markdown, created_at and
\* last_modified.
StoredEntriesAreComplete ==
    \A n \in ValidNameArgs : Stored(n) => DOMAIN store[KeyOf(n)] = AllFields

\* C26: of the Create calls that run concurrently for one absent name at
\* most one returns success: a Create returns success only when the name
\* had no entry until its own write, and the entry then holds exactly the
\* fields that call wrote.
OnlyOneCreateSucceeds ==
    [][\A p \in Procs :
          (Returned(p, "Create") /\ last'.err = "")
          => /\ ~Stored(last'.name)
             /\ store'[KeyOf(last'.name)] = CreateFields(last'.rs)]_vars

\* the second of the stored last_modified of name n in keyspace st
ModifiedSec(st, n) == st[KeyOf(n)]["last_modified"].sec

\* C27: while a ruleset stays stored, a write of an Update never takes its
\* stored last_modified back: after each step in which an Update writes to
\* a stored name, last_modified is no earlier than before the step, however
\* the concurrent Updates interleave (the clock they read never runs
\* backwards).
LastModifiedNeverDecreases ==
    [][\A p \in Procs :
          (pc[p] = "update_hset" /\ pc'[p] = "idle" /\ Stored(loc[p].name)
             /\ "last_modified" \in DOMAIN store[KeyOf(loc[p].name)])
          => ModifiedSec(store', loc[p].name) >= ModifiedSec(store, loc[p].name)]_vars

\* C28: a Delete returns success only when its own DEL removed the entry:
\* the name is stored until the step in which a Delete returns success, so
\* of two concurrent Deletes of one stored name only one returns success
\* and the other, finding no entry, returns NotFound.
DeleteSucceedsOnlyByRemoving ==
    [][\A p \in Procs :
          (Returned(p, "Delete") /\ last'.err = "")
          => Stored(last'.name) /\ ~StoredIn(store', last'.name)]_vars

\* the caller hands Create a ruleset whose timestamps are the zero time;
\* last.rs holds them as the call leaves them

\* C29 as stated: whenever Create returns an error, that of a failed field
\* write included, created_at and last_modified of the caller's ruleset are
\* as they were before the call.
FailedCreateLeavesTimestamps ==
    [][\A p \in Procs :
          (Returned(p, "Create") /\ last'.err # "")
          => /\ last'.rs.CreatedAt = ZeroTime
             /\ last'.rs.LastModified = ZeroTime]_vars

\* C29 amended: when Create returns InvalidName, DuplicateName or a
\* StoreError of the existence check, created_at and last_modified of the
\* caller's ruleset are as before the call; a Create that reaches the field
\* write has assigned both the time it read, and they stay assigned when
\* the write fails with StoreError as when it succeeds.
CreateStampsBeforeWrite ==
    [][\A p \in Procs :
          Returned(p, "Create")
          => IF pc[p] = "create_hset"
             THEN /\ last'.err \in {"", "StoreError"}
                  /\ last'.rs.CreatedAt = loc[p].now
                  /\ last'.rs.LastModified = loc[p].now
                  /\ loc[p].now # ZeroTime
             ELSE /\ last'.err \in {"InvalidName", "DuplicateName", "StoreError"}
                  /\ last'.rs.CreatedAt = ZeroTime
                  /\ last'.rs.LastModified = ZeroTime]_vars

\* a Create whose field write failed has returned StoreError with the
\* timestamps of the caller's ruleset assigned and nothing stored
FailedWriteStampedSeen ==
    /\ last.op = "Create" /\ last.err = "StoreError" /\ last.calls = 2
    /\ last.rs.CreatedAt # ZeroTime /\ last.rs.LastModified = last.rs.CreatedAt
    /\ ~Stored(last.name)
====
